---- MODULE Spec2Model ----
(***************************************************************************)
(* A model of the JSON file store of main.go: a Driver that keeps one      *)
(* record per file, root/<collection>/<resource>.json, written through a   *)
(* temporary file and a rename, under one lock per collection name.        *)
(*                                                                         *)
(* Strings that name collections and resources are modelled as the         *)
(* sequence of their path components ("a/s" is <<"a", "s">>, "" is <<>>),  *)
(* a path below the root directory d.dir likewise, so filepath.Join is     *)
(* concatenation.  File contents are sequences of tokens, one token per    *)
(* syntactic element of the indented JSON text.                            *)
(***************************************************************************)
EXTENDS Naturals, Sequences, FiniteSets, TLC

VARIABLES
    dirs,       \* the directories that exist, as paths below d.dir
    files,      \* the regular files that exist: path -> content
    mutex,      \* Driver.mutex: the goroutine holding it, or NoProc
    mutexes,    \* Driver.mutexes: collection name -> lock instance
    locked,     \* the lock instances created so far: instance -> holder
    pc,         \* where each goroutine is in the call it is running
    call,       \* the arguments of that call
    m,          \* Write/Delete: the local variable mutex (a lock instance)
    b,          \* Write: the bytes to write
    off,        \* Write: how much of b the temporary file's descriptor wrote
    fi,         \* Delete: what os.Stat returned
    list,       \* ReadAll: the directory entries still to visit
    users,      \* ReadAll: the accumulated result
    ret,        \* the result of the call that returned last, until the next
    dirty,      \* history: a step of the running Write changed its final path
    quiet,      \* history: no Write or Delete overlapped the running ReadAll
    calls,      \* the number of calls issued so far
    once,       \* history: the last Write that succeeded, and the state it
                \* left, while nothing but the same Write has run since
    failed      \* history: some Write has returned an error

vars == <<dirs, files, mutex, mutexes, locked, pc, call, m, b, off, fi, list,
          users, ret, dirty, quiet, calls, once, failed>>

(***************************************************************************)
(* Bounds of the model.                                                    *)
(***************************************************************************)
NumProcs == 2
MaxCalls == 3

Procs == 1..NumProcs
NoProc == 0
NoLock == 0

(***************************************************************************)
(* Values: the User records of main.go, cut to a string field and a        *)
(* json.Number field.  A json.Number is a string; the zero value is "".    *)
(***************************************************************************)
Kamo == [Name |-> "Kamo", Age |-> "23"]
Kamzo == [Name |-> "Kamzo", Age |-> "25"]
ZeroAge == [Name |-> "El", Age |-> ""]
BadAge == [Name |-> "Ellie", Age |-> "abc"]
NoUser == [Name |-> "", Age |-> ""]

\* The number literals among the strings the model uses.
ValidNumbers == {"0", "23", "25"}

Tok(k, v) == [k |-> k, v |-> v]
LBrace == Tok("{", "")
RBrace == Tok("}", "")
Newline == Tok("\n", "")
\* A byte range that was never written (a hole behind a descriptor's offset).
Hole == Tok("NUL", "")

\* encoding/json on a json.Number field: the empty string is written as 0,
\* anything else must be a valid number literal.
NumberText(n) == IF n = "" THEN "0" ELSE n

\* json.MarshalIndent(v, "", "\t") of a User: the error, or the text.
MarshalIndent(v) ==
    IF NumberText(v.Age) \notin ValidNumbers
    THEN [err |-> "SerializationError", b |-> <<>>]
    ELSE [err |-> "nil",
          b |-> <<LBrace, Tok("Name", v.Name), Tok("Age", NumberText(v.Age)),
                  RBrace>>]

\* The text Write puts in the file: MarshalIndent's, then a newline.
Encode(v) == Append(MarshalIndent(v).b, Newline)

\* Whether a text is one complete JSON object of the User shape, followed
\* by nothing but white space.
WellFormed(t) ==
    /\ Len(t) \in {4, 5}
    /\ t[1] = LBrace
    /\ t[2].k = "Name"
    /\ t[3].k = "Age"
    /\ t[3].v \in ValidNumbers
    /\ t[4] = RBrace
    /\ Len(t) = 5 => t[5] = Newline

\* json.Unmarshal(b, &user) into a zero User.
Unmarshal(t) ==
    IF WellFormed(t)
    THEN [err |-> "nil", v |-> [Name |-> t[2].v, Age |-> t[3].v]]
    ELSE [err |-> "DeserializationError", v |-> NoUser]

\* A call: the operation and its arguments.
Call(op, collection, resource, v) ==
    [op |-> op, collection |-> collection, resource |-> resource, v |-> v]
NoCall == Call("none", <<>>, <<>>, NoUser)

\* What a file holds: its bytes and, as history, the Write call whose open
\* created or truncated it.
NoContent == [data |-> <<>>, by |-> NoCall]

(***************************************************************************)
(* Paths.                                                                  *)
(***************************************************************************)
Root == <<>>

\* filepath.Join of two names: empty elements are ignored.
Join(x, y) == x \o y

\* s + ext: the suffix lands on the last component; "" + ext is ext.
AddExt(s, ext) == IF s = <<>> THEN <<ext>> ELSE [s EXCEPT ![Len(s)] = @ \o ext]

Prefixes(p) == {SubSeq(p, 1, n) : n \in 0..Len(p)}
Parent(p) == SubSeq(p, 1, Len(p) - 1)
Base(p) == p[Len(p)]
IsUnder(p, d) == Len(p) >= Len(d) /\ SubSeq(p, 1, Len(d)) = d

\* Write, lines 79-81.
CollectionDir(collection) == Join(Root, collection)
FnlPath(collection, resource) ==
    Join(CollectionDir(collection), AddExt(resource, ".json"))
\* The temporary path taken to be the final path: a write in place.
TmpPathInPlace(collection, resource) == FnlPath(collection, resource)
TmpPath(collection, resource) == AddExt(FnlPath(collection, resource), ".tmp")

\* Delete, lines 168 and 173.
DeletePath(collection, resource) == Join(Root, Join(collection, resource))

(***************************************************************************)
(* The file system calls, as functions of the state they are given.        *)
(***************************************************************************)
\* os.Stat: what is at the path.
Stat(ds, fs, p) ==
    IF p \in ds THEN "dir" ELSE IF p \in DOMAIN fs THEN "file" ELSE "none"

\* os.MkdirAll: fails when a component of the path is a regular file.
MkdirAllOk(ds, fs, p) == Prefixes(p) \cap DOMAIN fs = {}
MkdirAll(ds, p) == ds \cup Prefixes(p)

\* os.OpenFile(p, O_WRONLY|O_CREATE|O_TRUNC): needs the parent directory,
\* and p not to be a directory; leaves an empty file at p.
\* An open that makes the file whether its directory exists or not.
OpenOkNoParent(ds, fs, p) == p \notin ds
OpenOk(ds, fs, p) == p \notin ds /\ Parent(p) \in ds
Truncate(fs, p, who) ==
    [q \in DOMAIN fs \cup {p} |->
        IF q = p THEN [data |-> <<>>, by |-> who] ELSE fs[q]]

\* A write of data[from+1..to] at offset from, on a descriptor opened at p.
\* A file unlinked since the open is written without the path seeing it.
Max(x, y) == IF x >= y THEN x ELSE y
WriteAt(fs, p, data, from, to) ==
    IF p \notin DOMAIN fs THEN fs
    ELSE [fs EXCEPT ![p].data =
            [i \in 1..Max(Len(@), to) |->
                IF i > from /\ i <= to THEN data[i]
                ELSE IF i <= Len(@) THEN @[i] ELSE Hole]]

\* os.Rename of a regular file: the old path must exist, the new one must
\* not be a directory; the new path then holds the old file, atomically.
RenameOk(ds, fs, old, new) ==
    old \in DOMAIN fs /\ new \notin ds /\ Parent(new) \in ds
\* A rename that keeps the file it replaces, as new + ".bak".
RenameKeepsBackup(fs, old, new) ==
    LET bak == AddExt(new, ".bak")
        kept == IF new \in DOMAIN fs THEN {bak} ELSE {}
    IN  [q \in ((DOMAIN fs \ {old}) \cup {new}) \cup kept |->
            IF q = new THEN fs[old] ELSE IF q \in kept THEN fs[new] ELSE fs[q]]
Rename(fs, old, new) ==
    [q \in (DOMAIN fs \ {old}) \cup {new} |-> fs[IF q = new THEN old ELSE q]]

\* os.Remove of a path that holds a regular file.
RemoveOk(ds, fs, p) == p \in DOMAIN fs
Remove(fs, p) == [q \in DOMAIN fs \ {p} |-> fs[q]]

\* os.RemoveAll: the path and everything below it.
RemoveAllDirs(ds, p) == {d \in ds : ~IsUnder(d, p)}
RemoveAllFiles(fs, p) == [q \in {f \in DOMAIN fs : ~IsUnder(f, p)} |-> fs[q]]

\* Every name a directory entry can have, in the order of the file names
\* (ioutil.ReadDir sorts its result by file name).
SortedNames ==
    <<"a", "b", "s", "x.json", "x.json.json", "x.json.json.tmp", "x.json.tmp",
      "y.json", "y.json.tmp">>

\* ioutil.ReadDir: the entries of a directory, each a name and whether it is
\* a directory, sorted by name.
IsEntry(ds, fs, d, n) == Join(d, <<n>>) \in ds \cup DOMAIN fs
ReadDir(ds, fs, d) ==
    LET present(n) == IsEntry(ds, fs, d, n)
        names == SelectSeq(SortedNames, present)
    IN  [i \in 1..Len(names) |->
            [name |-> names[i], isDir |-> Join(d, <<names[i]>>) \in ds]]

\* ioutil.ReadFile: the content at a path, NoContent when no file is there.
At(fs, p) == IF p \in DOMAIN fs THEN fs[p] ELSE NoContent

(***************************************************************************)
(* The state after New: the root directory exists, the registry is empty.  *)
(***************************************************************************)
NoRet ==
    [call |-> NoCall, err |-> "nil", at |-> "", out |-> NoUser,
     users |-> <<>>, raw |-> NoContent, dirty |-> FALSE, quiet |-> FALSE,
     racing |-> FALSE]

\* No Write to repeat.
NoOnce == [call |-> NoCall, dirs |-> {}, files |-> <<>>, n |-> 0]

Init ==
    /\ dirs = {Root}
    /\ files = <<>>
    /\ mutex = NoProc
    /\ mutexes = <<>>
    /\ locked = <<>>
    /\ pc = [p \in Procs |-> "idle"]
    /\ call = [p \in Procs |-> NoCall]
    /\ m = [p \in Procs |-> NoLock]
    /\ b = [p \in Procs |-> <<>>]
    /\ off = [p \in Procs |-> 0]
    /\ fi = [p \in Procs |-> "none"]
    /\ list = [p \in Procs |-> <<>>]
    /\ users = [p \in Procs |-> <<>>]
    /\ ret = [p \in Procs |-> NoRet]
    /\ dirty = [p \in Procs |-> FALSE]
    /\ quiet = [p \in Procs |-> FALSE]
    /\ calls = 0
    /\ once = NoOnce
    /\ failed = FALSE

(***************************************************************************)
(* Returning from a call: the result is recorded and the locals die.       *)
(***************************************************************************)
\* History: another goroutine is inside a Write to the collection of call c
\* (to its record, when c is a Read) with its temporary file open.
Racing(p, c) ==
    \E q \in Procs \ {p} :
        /\ pc[q] \in {"write", "rename"}
        /\ call[q].collection = c.collection
        /\ c.op = "Read" => call[q].resource = c.resource

Return(p, c, err, at, out, us, raw, touched) ==
    /\ ret' = [ret EXCEPT ![p] =
                [call |-> c, err |-> err, at |-> at, out |-> out, users |-> us,
                 raw |-> raw, dirty |-> touched, quiet |-> quiet[p],
                 racing |-> c.op \in {"Read", "ReadAll"} /\ Racing(p, c)]]
    /\ pc' = [pc EXCEPT ![p] = "idle"]
    /\ call' = [call EXCEPT ![p] = NoCall]
    /\ m' = [m EXCEPT ![p] = NoLock]
    /\ b' = [b EXCEPT ![p] = <<>>]
    /\ off' = [off EXCEPT ![p] = 0]
    /\ fi' = [fi EXCEPT ![p] = "none"]
    /\ list' = [list EXCEPT ![p] = <<>>]
    /\ users' = [users EXCEPT ![p] = <<>>]
    /\ dirty' = [dirty EXCEPT ![p] = FALSE]
    /\ quiet' = [quiet EXCEPT ![p] = FALSE]

\* A step inside a call: only the program counter of p moves.
Goto(p, label) == pc' = [pc EXCEPT ![p] = label]

\* A Lock that never waits.
CanLockHeld(ls, id) == TRUE

\* One lock for all collections: a Lock waits while any lock is held.
CanLockAllFree(ls, id) == \A i \in DOMAIN ls : ls[i] = NoProc

\* sync.Mutex: Lock blocks while the lock is held; Unlock frees it.
CanLock(ls, id) == ls[id] = NoProc
Lock(ls, id, p) == [ls EXCEPT ![id] = p]
\* An Unlock that frees nothing.
UnlockNever(ls, id) == ls
Unlock(ls, id) == [ls EXCEPT ![id] = NoProc]

\* Whether a call mutates: it is a Write or a Delete past its argument checks.
Mutating(p) == call[p].op \in {"Write", "Delete"}

\* History: a Write or Delete that starts ends the quiet of every ReadAll.
Disturb == quiet' = [q \in Procs |-> FALSE]

(***************************************************************************)
(* Driver.getOrCreateMutex, lines 186-197.                                 *)
(***************************************************************************)
\* A getOrCreateMutex that does not take d.mutex: the lookup and the insert
\* are no critical section.
GcmLockNoWait(p) ==
    /\ pc[p] = "gcm"
    /\ Goto(p, "lookup")
    /\ UNCHANGED <<dirs, files, mutex, mutexes, locked, call, m, b, off, fi,
                   list, users, ret, dirty, quiet, calls, once, failed>>

\* d.mutex.Lock()
GcmLock(p) ==
    /\ pc[p] = "gcm"
    /\ mutex = NoProc
    /\ mutex' = p
    /\ Goto(p, "lookup")
    /\ UNCHANGED <<dirs, files, mutexes, locked, call, m, b, off, fi, list,
                   users, ret, dirty, quiet, calls, once, failed>>

\* m, ok := d.mutexes[collection]; when ok, return m (the deferred Unlock
\* of d.mutex runs).
\* A registry that never finds an entry: every call makes a new lock.
FoundNever(ms, collection) == FALSE
Found(ms, collection) == collection \in DOMAIN ms

\* A lookup that returns the lock it found without unlocking d.mutex.
GcmLookupKeepsMutex(p) ==
    /\ pc[p] = "lookup"
    /\ IF Found(mutexes, call[p].collection)
       THEN /\ m' = [m EXCEPT ![p] = mutexes[call[p].collection]]
            /\ Goto(p, "lock")
       ELSE /\ Goto(p, "insert")
            /\ UNCHANGED m
    /\ UNCHANGED <<dirs, files, mutex, mutexes, locked, call, b, off, fi, list,
                   users, ret, dirty, quiet, calls, once, failed>>

GcmLookup(p) ==
    /\ pc[p] = "lookup"
    /\ IF Found(mutexes, call[p].collection)
       THEN /\ m' = [m EXCEPT ![p] = mutexes[call[p].collection]]
            /\ mutex' = NoProc
            /\ Goto(p, "lock")
       ELSE /\ Goto(p, "insert")
            /\ UNCHANGED <<m, mutex>>
    /\ UNCHANGED <<dirs, files, mutexes, locked, call, b, off, fi, list,
                   users, ret, dirty, quiet, calls, once, failed>>

\* m = &sync.Mutex{}; d.mutexes[collection] = m; return m
GcmInsert(p) ==
    /\ pc[p] = "insert"
    /\ LET id == Len(locked) + 1
       IN  /\ locked' = Append(locked, NoProc)
           /\ mutexes' = [c \in DOMAIN mutexes \cup {call[p].collection} |->
                            IF c = call[p].collection THEN id ELSE mutexes[c]]
           /\ m' = [m EXCEPT ![p] = id]
    /\ mutex' = NoProc
    /\ Goto(p, "lock")
    /\ UNCHANGED <<dirs, files, call, b, off, fi, list, users, ret, dirty,
                   quiet, calls, once, failed>>

\* mutex.Lock(), lines 76 and 170.
MutexLock(p) ==
    /\ pc[p] = "lock"
    /\ CanLock(locked, m[p])
    /\ locked' = Lock(locked, m[p], p)
    /\ Goto(p, IF call[p].op = "Write" THEN "mkdir" ELSE "stat")
    /\ UNCHANGED <<dirs, files, mutex, mutexes, call, m, b, off, fi, list,
                   users, ret, dirty, quiet, calls, once, failed>>

(***************************************************************************)
(* Driver.Write, lines 66-104.                                             *)
(***************************************************************************)
\* Lines 67-75: the argument checks, then on to getOrCreateMutex.
CallWrite(p, collection, resource, v) ==
    /\ pc[p] = "idle"
    /\ calls < MaxCalls
    /\ calls' = calls + 1
    /\ once' = IF /\ once.call = Call("Write", collection, resource, v)
                  /\ \A q \in Procs : pc[q] = "idle"
               THEN once ELSE NoOnce
    /\ UNCHANGED failed
    /\ LET c == Call("Write", collection, resource, v)
       IN  IF collection = <<>> \/ resource = <<>>
           THEN /\ Return(p, c, "InvalidArgument",
                          IF collection = <<>> THEN "collection" ELSE "resource",
                          NoUser, <<>>, NoContent, FALSE)
           ELSE /\ call' = [call EXCEPT ![p] = c]
                /\ Goto(p, "gcm")
                /\ Disturb
                /\ ret' = [ret EXCEPT ![p] = NoRet]
                /\ UNCHANGED <<m, b, off, fi, list, users, dirty>>
    /\ UNCHANGED <<dirs, files, mutex, mutexes, locked>>

\* History: whether this step changes what the final path of p's Write holds.
Touches(p) ==
    \/ dirty[p]
    \/ At(files', FnlPath(call[p].collection, call[p].resource))
         # At(files, FnlPath(call[p].collection, call[p].resource))
    \/ (FnlPath(call[p].collection, call[p].resource) \in dirs')
         # (FnlPath(call[p].collection, call[p].resource) \in dirs)

\* A Write that unlocks before its last return and not in a defer: the
\* returns with an error keep the lock.
WriteReturnKeepsLock(p, err, at) ==
    /\ locked' = IF err = "nil" THEN Unlock(locked, m[p]) ELSE locked
    /\ once' = IF err = "nil" /\ \A q \in Procs \ {p} : pc[q] = "idle"
               THEN [call |-> call[p], dirs |-> dirs', files |-> files',
                     n |-> IF once.call = call[p] THEN once.n + 1 ELSE 1]
               ELSE NoOnce
    /\ failed' = (failed \/ err # "nil")
    /\ Return(p, call[p], err, at, NoUser, <<>>, NoContent, Touches(p))

\* A return of Write: the deferred mutex.Unlock() runs.
WriteReturn(p, err, at) ==
    /\ locked' = Unlock(locked, m[p])
    /\ once' = IF err = "nil" /\ \A q \in Procs \ {p} : pc[q] = "idle"
               THEN [call |-> call[p], dirs |-> dirs', files |-> files',
                     n |-> IF once.call = call[p] THEN once.n + 1 ELSE 1]
               ELSE NoOnce
    /\ failed' = (failed \/ err # "nil")
    /\ Return(p, call[p], err, at, NoUser, <<>>, NoContent, Touches(p))

\* Lines 83-92: os.MkdirAll(dir), then the value is marshalled.
WriteMkdir(p) ==
    /\ pc[p] = "mkdir"
    /\ LET dir == CollectionDir(call[p].collection)
           mar == MarshalIndent(call[p].v)
       IN  IF ~MkdirAllOk(dirs, files, dir)
           THEN /\ UNCHANGED <<dirs, files>>
                /\ WriteReturn(p, "IOError", "mkdir")
           ELSE /\ dirs' = MkdirAll(dirs, dir)
                /\ UNCHANGED files
                /\ IF mar.err # "nil"
                   THEN WriteReturn(p, mar.err, "marshal")
                   ELSE /\ b' = [b EXCEPT ![p] = Append(mar.b, Newline)]
                        /\ Goto(p, "open")
                        /\ dirty' = [dirty EXCEPT ![p] = Touches(p)]
                        /\ UNCHANGED <<locked, call, m, off, fi, list, users,
                                       ret, quiet, once, failed>>
    /\ UNCHANGED <<mutex, mutexes, calls>>

\* Line 94, ioutil.WriteFile, first half: the temporary file is opened,
\* created or truncated.
WriteOpen(p) ==
    /\ pc[p] = "open"
    /\ LET tmpPath == TmpPath(call[p].collection, call[p].resource)
       IN  IF OpenOk(dirs, files, tmpPath)
           THEN /\ files' = Truncate(files, tmpPath, call[p])
                /\ UNCHANGED dirs
                /\ Goto(p, "write")
                /\ dirty' = [dirty EXCEPT ![p] = Touches(p)]
                /\ UNCHANGED <<locked, call, m, b, off, fi, list, users, ret,
                               quiet, once, failed>>
           ELSE /\ UNCHANGED <<dirs, files>>
                /\ WriteReturn(p, "IOError", "tmp")
    /\ UNCHANGED <<mutex, mutexes, calls>>

\* Where a write system call that starts at offset o of n bytes may stop: at
\* the end, or (a short write, when it is the first) half way or one byte
\* before the end.
ChunkEnds(o, n) == IF o = 0 THEN {n \div 2, n - 1, n} ELSE {n}

\* Line 94, second half: the bytes go out, in one write or in two; the file
\* is closed after the last.
WriteBytes(p) ==
    /\ pc[p] = "write"
    /\ \E k \in ChunkEnds(off[p], Len(b[p])) :
          /\ files' = WriteAt(files, TmpPath(call[p].collection, call[p].resource),
                              b[p], off[p], k)
          /\ off' = [off EXCEPT ![p] = k]
          /\ Goto(p, IF k = Len(b[p]) THEN "rename" ELSE "write")
    /\ UNCHANGED dirs
    /\ dirty' = [dirty EXCEPT ![p] = Touches(p)]
    /\ UNCHANGED <<mutex, mutexes, locked, call, m, b, fi, list, users,
                   ret, quiet, calls, once, failed>>

\* Lines 98-103: os.Rename(tmpPath, fnlPath), and the return.
WriteRename(p) ==
    /\ pc[p] = "rename"
    /\ LET tmpPath == TmpPath(call[p].collection, call[p].resource)
           fnlPath == FnlPath(call[p].collection, call[p].resource)
       IN  IF RenameOk(dirs, files, tmpPath, fnlPath)
           THEN /\ files' = Rename(files, tmpPath, fnlPath)
                /\ UNCHANGED dirs
                /\ WriteReturn(p, "nil", "")
           ELSE /\ UNCHANGED <<dirs, files>>
                /\ WriteReturn(p, "IOError", "rename")
    /\ UNCHANGED <<mutex, mutexes, calls>>

(***************************************************************************)
(* The same steps of Write when the file system refuses: no permission,    *)
(* no space left.                                                          *)
(***************************************************************************)
\* os.MkdirAll fails: nothing is created.
WriteMkdirFails(p) ==
    /\ pc[p] = "mkdir"
    /\ UNCHANGED <<dirs, files, mutex, mutexes, calls>>
    /\ WriteReturn(p, "IOError", "mkdir")

\* ioutil.WriteFile fails in its open: nothing is created.
WriteOpenFails(p) ==
    /\ pc[p] = "open"
    /\ UNCHANGED <<dirs, files, mutex, mutexes, calls>>
    /\ WriteReturn(p, "IOError", "tmp")

\* ioutil.WriteFile fails in a write: what was written so far stays.
WriteBytesFails(p) ==
    /\ pc[p] = "write"
    /\ UNCHANGED <<dirs, files, mutex, mutexes, calls>>
    /\ WriteReturn(p, "IOError", "tmp")

\* os.Rename fails: the temporary file stays.
WriteRenameFails(p) ==
    /\ pc[p] = "rename"
    /\ UNCHANGED <<dirs, files, mutex, mutexes, calls>>
    /\ WriteReturn(p, "IOError", "rename")

(***************************************************************************)
(* Driver.Read, lines 106-127.                                             *)
(***************************************************************************)
\* A Read that checks no argument, as Delete does.
CallReadUnchecked(p, collection, resource) ==
    /\ pc[p] = "idle"
    /\ calls < MaxCalls
    /\ calls' = calls + 1
    /\ once' = NoOnce
    /\ UNCHANGED failed
    /\ call' = [call EXCEPT ![p] = Call("Read", collection, resource, NoUser)]
    /\ Goto(p, "rstat")
    /\ ret' = [ret EXCEPT ![p] = NoRet]
    /\ UNCHANGED <<dirs, files, mutex, mutexes, locked, m, b, off, fi, list,
                   users, dirty, quiet>>

\* Lines 107-115: the argument checks.
CallRead(p, collection, resource) ==
    /\ pc[p] = "idle"
    /\ calls < MaxCalls
    /\ calls' = calls + 1
    /\ once' = NoOnce
    /\ UNCHANGED failed
    /\ LET c == Call("Read", collection, resource, NoUser)
       IN  IF collection = <<>> \/ resource = <<>>
           THEN /\ Return(p, c, "InvalidArgument",
                          IF collection = <<>> THEN "collection" ELSE "resource",
                          NoUser, <<>>, NoContent, FALSE)
           ELSE /\ call' = [call EXCEPT ![p] = c]
                /\ Goto(p, "rstat")
                /\ ret' = [ret EXCEPT ![p] = NoRet]
                /\ UNCHANGED <<m, b, off, fi, list, users, dirty, quiet>>
    /\ UNCHANGED <<dirs, files, mutex, mutexes, locked>>

\* The check of existence done by opening the file with O_CREATE: a record
\* that is missing is created, empty.
ReadStatCreates(p) ==
    /\ pc[p] = "rstat"
    /\ LET record == FnlPath(call[p].collection, call[p].resource)
       IN  files' = IF OpenOk(dirs, files, record) /\ record \notin DOMAIN files
                    THEN Truncate(files, record, call[p]) ELSE files
    /\ Goto(p, "rread")
    /\ UNCHANGED <<dirs, mutex, mutexes, locked, call, m, b, off, fi, list,
                   users, ret, dirty, quiet, calls, once, failed>>

\* Lines 117-119: os.Stat(record).
ReadStat(p) ==
    /\ pc[p] = "rstat"
    /\ LET record == FnlPath(call[p].collection, call[p].resource)
       IN  IF Stat(dirs, files, record) = "none"
           THEN Return(p, call[p], "NotFound", "stat", NoUser, <<>>, NoContent,
                       FALSE)
           ELSE /\ Goto(p, "rread")
                /\ UNCHANGED <<call, m, b, off, fi, list, users, ret, dirty,
                               quiet>>
    /\ UNCHANGED <<dirs, files, mutex, mutexes, locked, calls, once, failed>>

\* Lines 121-126: ioutil.ReadFile(record), then json.Unmarshal(b, v).
ReadFile(p) ==
    /\ pc[p] = "rread"
    /\ LET record == FnlPath(call[p].collection, call[p].resource)
           kind == Stat(dirs, files, record)
           raw == At(files, record)
           got == Unmarshal(raw.data)
       IN  IF kind = "file"
           THEN Return(p, call[p], got.err, "unmarshal", got.v, <<>>, raw, FALSE)
           ELSE Return(p, call[p], IF kind = "none" THEN "NotFound" ELSE "IOError",
                       "read", NoUser, <<>>, NoContent, FALSE)
    /\ UNCHANGED <<dirs, files, mutex, mutexes, locked, calls, once, failed>>

(***************************************************************************)
(* Driver.ReadAll, lines 129-165.                                          *)
(***************************************************************************)
\* Lines 130-133: the argument check.
CallReadAll(p, collection) ==
    /\ pc[p] = "idle"
    /\ calls < MaxCalls
    /\ calls' = calls + 1
    /\ once' = NoOnce
    /\ UNCHANGED failed
    /\ LET c == Call("ReadAll", collection, <<>>, NoUser)
       IN  IF collection = <<>>
           THEN Return(p, c, "InvalidArgument", "collection", NoUser, <<>>,
                       NoContent, FALSE)
           ELSE /\ call' = [call EXCEPT ![p] = c]
                /\ Goto(p, "astat")
                /\ quiet' = [quiet EXCEPT
                               ![p] = \A q \in Procs : ~Mutating(q)]
                /\ ret' = [ret EXCEPT ![p] = NoRet]
                /\ UNCHANGED <<m, b, off, fi, list, users, dirty>>
    /\ UNCHANGED <<dirs, files, mutex, mutexes, locked>>

\* Lines 135-137: os.Stat(dir).
ReadAllStat(p) ==
    /\ pc[p] = "astat"
    /\ IF Stat(dirs, files, CollectionDir(call[p].collection)) = "none"
       THEN Return(p, call[p], "NotFound", "stat", NoUser, <<>>, NoContent, FALSE)
       ELSE /\ Goto(p, "readdir")
            /\ UNCHANGED <<call, m, b, off, fi, list, users, ret, dirty, quiet>>
    /\ UNCHANGED <<dirs, files, mutex, mutexes, locked, calls, once, failed>>

\* Lines 139-144: ioutil.ReadDir(dir); an empty directory ends the call.
ReadAllDir(p) ==
    /\ pc[p] = "readdir"
    /\ LET dir == CollectionDir(call[p].collection)
           kind == Stat(dirs, files, dir)
           entries == ReadDir(dirs, files, dir)
       IN  IF kind # "dir"
           THEN Return(p, call[p], IF kind = "none" THEN "NotFound" ELSE "IOError",
                       "readdir", NoUser, <<>>, NoContent, FALSE)
           ELSE IF entries = <<>>
           THEN Return(p, call[p], "nil", "", NoUser, <<>>, NoContent, FALSE)
           ELSE /\ list' = [list EXCEPT ![p] = entries]
                /\ Goto(p, "entry")
                /\ UNCHANGED <<call, m, b, off, fi, users, ret, dirty, quiet>>
    /\ UNCHANGED <<dirs, files, mutex, mutexes, locked, calls, once, failed>>

\* Lines 146-164: one turn of the loop; after the last entry the call
\* returns what it accumulated.
ReadAllEntry(p) ==
    /\ pc[p] = "entry"
    /\ LET e == Head(list[p])
           path == Join(CollectionDir(call[p].collection), <<e.name>>)
           kind == Stat(dirs, files, path)
           raw == At(files, path)
           got == Unmarshal(raw.data)
           acc == IF e.isDir THEN users[p] ELSE Append(users[p], got.v)
       IN  IF ~e.isDir /\ kind # "file"
           THEN Return(p, call[p], IF kind = "none" THEN "NotFound" ELSE "IOError",
                       "read", NoUser, <<>>, NoContent, FALSE)
           ELSE IF ~e.isDir /\ got.err # "nil"
           THEN Return(p, call[p], got.err, "unmarshal", NoUser, <<>>, raw, FALSE)
           ELSE IF Len(list[p]) = 1
           THEN Return(p, call[p], "nil", "", NoUser, acc, NoContent, FALSE)
           ELSE /\ list' = [list EXCEPT ![p] = Tail(@)]
                /\ users' = [users EXCEPT ![p] = acc]
                /\ UNCHANGED <<pc, call, m, b, off, fi, ret, dirty, quiet>>
    /\ UNCHANGED <<dirs, files, mutex, mutexes, locked, calls, once, failed>>

(***************************************************************************)
(* Driver.Delete, lines 167-184.                                           *)
(***************************************************************************)
\* Lines 168-169: no argument is checked.
CallDelete(p, collection, resource) ==
    /\ pc[p] = "idle"
    /\ calls < MaxCalls
    /\ calls' = calls + 1
    /\ once' = NoOnce
    /\ UNCHANGED failed
    /\ call' = [call EXCEPT ![p] = Call("Delete", collection, resource, NoUser)]
    /\ Goto(p, "gcm")
    /\ Disturb
    /\ ret' = [ret EXCEPT ![p] = NoRet]
    /\ UNCHANGED <<dirs, files, mutex, mutexes, locked, m, b, off, fi, list,
                   users, dirty>>

\* A Delete that unlocks at the end of its body and not in a defer: the
\* returns with an error keep the lock.
DeleteReturnKeepsLock(p, err, at) ==
    /\ locked' = IF err = "nil" THEN Unlock(locked, m[p]) ELSE locked
    /\ Return(p, call[p], err, at, NoUser, <<>>, NoContent, FALSE)

\* A return of Delete: the deferred mutex.Unlock() runs.
DeleteReturn(p, err, at) ==
    /\ locked' = Unlock(locked, m[p])
    /\ Return(p, call[p], err, at, NoUser, <<>>, NoContent, FALSE)

\* Lines 173-177: os.Stat(dir), and the case of an error.
DeleteStat(p) ==
    /\ pc[p] = "stat"
    /\ LET kind == Stat(dirs, files,
                        DeletePath(call[p].collection, call[p].resource))
       IN  IF kind = "none"
           THEN DeleteReturn(p, "NotFound", "stat")
           ELSE /\ fi' = [fi EXCEPT ![p] = kind]
                /\ Goto(p, "remove")
                /\ UNCHANGED <<locked, call, m, b, off, list, users, ret, dirty,
                               quiet>>
    /\ UNCHANGED <<dirs, files, mutex, mutexes, calls, once, failed>>

\* The path Delete removes when the target is a regular file, line 181.
RecordOf(dir) == AddExt(dir, ".json")

\* Lines 178-181: os.RemoveAll(dir) of a directory, os.Remove(dir + ".json")
\* of a regular file.
DeleteRemove(p) ==
    /\ pc[p] = "remove"
    /\ LET dir == DeletePath(call[p].collection, call[p].resource)
       IN  IF fi[p] = "dir"
           THEN /\ dirs' = RemoveAllDirs(dirs, dir)
                /\ files' = RemoveAllFiles(files, dir)
                /\ DeleteReturn(p, "nil", "")
           ELSE IF RemoveOk(dirs, files, RecordOf(dir))
           THEN /\ files' = Remove(files, RecordOf(dir))
                /\ UNCHANGED dirs
                /\ DeleteReturn(p, "nil", "")
           ELSE /\ UNCHANGED <<dirs, files>>
                /\ DeleteReturn(p, "NotFound", "remove")
    /\ UNCHANGED <<mutex, mutexes, calls, once, failed>>

(***************************************************************************)
(* The specifications: goroutines calling the operations, with arguments   *)
(* drawn from small sets.  Each specification takes the operations and     *)
(* the arguments its claims are about.                                     *)
(***************************************************************************)
LockSteps(p) == GcmLock(p) \/ GcmLookup(p) \/ GcmInsert(p) \/ MutexLock(p)
WriteSteps(p) == WriteMkdir(p) \/ WriteOpen(p) \/ WriteBytes(p) \/ WriteRename(p)
ReadSteps(p) == ReadStat(p) \/ ReadFile(p)
ReadAllSteps(p) == ReadAllStat(p) \/ ReadAllDir(p) \/ ReadAllEntry(p)
DeleteSteps(p) == DeleteStat(p) \/ DeleteRemove(p)
FaultSteps(p) ==
    \/ WriteMkdirFails(p) \/ WriteOpenFails(p) \/ WriteBytesFails(p)
    \/ WriteRenameFails(p)

Empty == <<>>
A == <<"a">>
B == <<"b">>
AS == <<"a", "s">>
S == <<"s">>
X == <<"x">>
Y == <<"y">>
XJson == <<"x.json">>

\* Spec: concurrent Writes, Reads and Deletes of one record, and Writes to
\* a second collection.
Next ==
    \E p \in Procs :
        \/ \E c \in {A, B}, v \in {Kamo, Kamzo} : CallWrite(p, c, X, v)
        \/ CallRead(p, A, X)
        \/ \E r \in {X, Empty} : CallDelete(p, A, r)
        \/ LockSteps(p) \/ WriteSteps(p) \/ ReadSteps(p) \/ DeleteSteps(p)

Spec == Init /\ [][Next]_vars

\* SpecNames: Deletes by the names a caller may give: a record's name, a
\* name that is the file name of a record ("x.json"), the name of a
\* directory (the nested collection "a/s").
NextNames ==
    \E p \in Procs :
        \/ \E a \in {<<A, X>>, <<A, XJson>>, <<AS, X>>} :
              CallWrite(p, a[1], a[2], Kamo)
        \/ CallReadAll(p, A)
        \/ \E r \in {X, XJson, S} : CallDelete(p, A, r)
        \/ LockSteps(p) \/ WriteSteps(p) \/ ReadAllSteps(p) \/ DeleteSteps(p)

SpecNames == Init /\ [][NextNames]_vars

\* SpecFaults: Writes to one record that the file system may refuse at any
\* step, a value that cannot be serialized, and readers of the record and of
\* its collection.
NextFaults ==
    \E p \in Procs :
        \/ \E v \in {Kamo, Kamzo, BadAge} : CallWrite(p, A, X, v)
        \/ CallRead(p, A, X)
        \/ CallReadAll(p, A)
        \/ LockSteps(p) \/ WriteSteps(p) \/ FaultSteps(p) \/ ReadSteps(p)
        \/ ReadAllSteps(p)

SpecFaults == Init /\ [][NextFaults]_vars

\* SpecCodec: two records of one collection, written, read back and listed;
\* one value has the zero json.Number, and some calls lack an argument.
NextCodec ==
    \E p \in Procs :
        \/ \E r \in {X, Y}, v \in {Kamo, ZeroAge} : CallWrite(p, A, r, v)
        \/ \E a \in {<<Empty, X>>, <<A, Empty>>} : CallWrite(p, a[1], a[2], Kamo)
        \/ \E a \in {<<A, X>>, <<Empty, X>>, <<A, Empty>>} : CallRead(p, a[1], a[2])
        \/ \E c \in {A, Empty} : CallReadAll(p, c)
        \/ LockSteps(p) \/ WriteSteps(p) \/ ReadSteps(p) \/ ReadAllSteps(p)

SpecCodec == Init /\ [][NextCodec]_vars

\* SpecExits: every way out of Write and of Delete: a value that cannot be
\* serialized, a file system that may refuse any step of Write, Deletes of a
\* record's file name and, with an empty collection name, of the whole
\* collection.
NextExits ==
    \E p \in Procs :
        \/ \E a \in {<<X, Kamo>>, <<X, BadAge>>, <<XJson, Kamo>>} :
              CallWrite(p, A, a[1], a[2])
        \/ \E a \in {<<A, XJson>>, <<Empty, A>>} :
              CallDelete(p, a[1], a[2])
        \/ LockSteps(p) \/ WriteSteps(p) \/ FaultSteps(p) \/ DeleteSteps(p)

SpecExits == Init /\ [][NextExits]_vars

\* SpecLive: the four operations on two collections, under a fair scheduler.
\* A goroutine that can take a step of the call it is in takes one (weak
\* fairness of the steps that wait for nothing); a goroutine waiting at a
\* Lock gets the lock if it is free again and again (strong fairness: a
\* sync.Mutex hands the lock to a starving waiter).  Callers need not call.
NextLive ==
    \E p \in Procs :
        \/ \E c \in {A, B} : CallWrite(p, c, X, Kamo)
        \/ CallRead(p, A, X)
        \/ CallReadAll(p, A)
        \/ \E r \in {X, Empty} : CallDelete(p, A, r)
        \/ LockSteps(p) \/ WriteSteps(p) \/ ReadSteps(p) \/ ReadAllSteps(p)
        \/ DeleteSteps(p)

Fairness ==
    \A p \in Procs :
        /\ WF_vars(GcmLookup(p) \/ GcmInsert(p) \/ WriteSteps(p) \/ ReadSteps(p)
                     \/ ReadAllSteps(p) \/ DeleteSteps(p))
        /\ SF_vars(GcmLock(p))
        /\ SF_vars(MutexLock(p))

SpecLive == Init /\ [][NextLive]_vars /\ Fairness

\* Every name in the file system is one ReadDir knows how to sort.
NamesKnown ==
    \A path \in dirs \cup DOMAIN files :
        path # <<>> => \E i \in 1..Len(SortedNames) : SortedNames[i] = Base(path)

(***************************************************************************)
(* The claims.                                                             *)
(***************************************************************************)
\* A goroutine is in the section of Write or Delete that runs under the
\* collection's lock: between mutex.Lock() and the return.
InSection(p) == pc[p] \in {"mkdir", "open", "write", "rename", "stat", "remove"}

\* C1: at most one Write or Delete call at a time is in the locked section
\* of a given collection name.
C1_MutualExclusion ==
    \A p, q \in Procs :
        p # q /\ InSection(p) /\ InSection(q)
            => call[p].collection # call[q].collection

\* A Write has its temporary file open while a Delete of the same collection
\* waits for the lock.
C1_Witness ==
    \E p, q \in Procs :
        /\ pc[p] = "write" /\ call[p].op = "Write"
        /\ pc[q] = "lock" /\ call[q].op = "Delete"
        /\ call[p].collection = call[q].collection

\* C2: a Read that returns no error has deserialized the complete bytes of
\* one Write to the same collection and resource, also when a Write to that
\* record is under way.
C2_ReadSeesWholeWrite ==
    \A p \in Procs :
        ret[p].call.op = "Read" /\ ret[p].err = "nil"
            => /\ ret[p].raw.by.op = "Write"
               /\ ret[p].raw.by.collection = ret[p].call.collection
               /\ ret[p].raw.by.resource = ret[p].call.resource
               /\ ret[p].raw.data = Encode(ret[p].raw.by.v)
               /\ ret[p].out = Unmarshal(Encode(ret[p].raw.by.v)).v

\* A Read returned the previous version while another goroutine's Write of a
\* different value to the same record had written part of its temporary file.
C2_Witness ==
    \E p, q \in Procs :
        /\ ret[p].call.op = "Read" /\ ret[p].err = "nil" /\ ret[p].racing
        /\ pc[q] = "write" /\ off[q] > 0
        /\ call[q].collection = ret[p].call.collection
        /\ call[q].resource = ret[p].call.resource
        /\ call[q].v # ret[p].out

\* C3: a file that is not the temporary file of the Write that created it is
\* at that Write's final path and holds exactly the bytes of that Write, in
\* every state and under any number of concurrent Writes to the record.
C3_FinalFileWhole ==
    \A f \in DOMAIN files :
        LET by == files[f].by
        IN  f # TmpPath(by.collection, by.resource)
                => /\ by.op = "Write"
                   /\ f = FnlPath(by.collection, by.resource)
                   /\ files[f].data = Encode(by.v)

\* Two Writes of different values to one record overlap: one has written
\* half of its temporary file, the other waits for the lock, and the final
\* path holds a file.
C3_Witness ==
    \E p, q \in Procs :
        /\ call[p].op = "Write" /\ call[q].op = "Write"
        /\ call[p].collection = call[q].collection
        /\ call[p].resource = call[q].resource
        /\ call[p].v # call[q].v
        /\ pc[p] = "write" /\ off[p] > 0 /\ pc[q] = "lock"
        /\ FnlPath(call[p].collection, call[p].resource) \in DOMAIN files
        /\ At(files, TmpPath(call[p].collection, call[p].resource)).data
             # Encode(call[p].v)

\* C5: a Delete of a record that is stored returns no error and removes
\* exactly the record's file, root/c/r.json.
C5_DeleteExistingRecord ==
    [][\A p \in Procs :
         LET record == FnlPath(call[p].collection, call[p].resource)
         IN  (/\ call[p].op = "Delete" /\ call[p].resource # <<>>
              /\ pc[p] \in {"stat", "remove"} /\ pc'[p] = "idle"
              /\ record \in DOMAIN files)
                 => /\ ret'[p].err = "nil"
                    /\ files' = Remove(files, record)
                    /\ dirs' = dirs]_vars

\* C9: no step of a Read changes a file or a directory, and the Stat of a
\* Read whose record file is missing ends the call with NotFound.
C9_ReadMissing ==
    [][\A p \in Procs :
         LET record == FnlPath(call[p].collection, call[p].resource)
         IN  /\ (call'[p].op = "Read" /\ pc[p] = "idle")
                   => dirs' = dirs /\ files' = files
             /\ (call[p].op = "Read" /\ pc'[p] # pc[p])
                   => /\ dirs' = dirs /\ files' = files
                      /\ Stat(dirs, files, record) = "none"
                            => pc'[p] = "idle" /\ ret'[p].err = "NotFound"]_vars

\* A Read has returned NotFound and neither the record file nor the collection
\* directory exists.
C9_Witness ==
    \E p \in Procs :
        /\ ret[p].call.op = "Read" /\ ret[p].err = "NotFound"
        /\ CollectionDir(ret[p].call.collection) \notin dirs
        /\ FnlPath(ret[p].call.collection, ret[p].call.resource)
             \notin DOMAIN files

\* C4: a Read that reads the file a Write(c, r, v) committed returns no
\* error and sets out to v.
C4_RoundTrip ==
    \A p \in Procs :
        ret[p].call.op = "Read" /\ ret[p].raw # NoContent
            => ret[p].err = "nil" /\ ret[p].out = ret[p].raw.by.v

\* The return of a Delete of a resource whose record file does not exist.
DeleteOfMissing(p) ==
    /\ call[p].op = "Delete" /\ call[p].resource # <<>>
    /\ pc[p] \in {"stat", "remove"} /\ pc'[p] = "idle"
    /\ FnlPath(call[p].collection, call[p].resource) \notin DOMAIN files

\* What the claim says of such a return.
MissingReported(p) ==
    /\ ret'[p].err = "NotFound"
    /\ dirs' = dirs /\ files' = files
    /\ locked'[m[p]] = NoProc

C7_FailedWriteKeepsRecord ==
    \A p \in Procs :
        ret[p].call.op = "Write" /\ ret[p].at \in {"mkdir", "marshal", "tmp"}
            => ret[p].err # "nil" /\ ~ret[p].dirty

\* A Write has failed in writing its temporary file, which it left half
\* written, and the final path still holds the record of an earlier Write
\* of another value.
C7_Witness ==
    \E p \in Procs :
        LET c == ret[p].call
        IN  /\ c.op = "Write" /\ ret[p].at = "tmp"
            /\ FnlPath(c.collection, c.resource) \in DOMAIN files
            /\ files[FnlPath(c.collection, c.resource)].by.v # c.v
            /\ TmpPath(c.collection, c.resource) \in DOMAIN files
            /\ files[TmpPath(c.collection, c.resource)].data # Encode(c.v)

\* A call of Write, Read or ReadAll that lacks an argument.
LacksArgument(c) ==
    \/ c.op \in {"Write", "Read"} /\ (c.collection = <<>> \/ c.resource = <<>>)
    \/ c.op = "ReadAll" /\ c.collection = <<>>

\* C8: a Write, Read or ReadAll that lacks an argument never gets past its
\* checks and returns InvalidArgument, and the step that makes the call and
\* returns from it changes no file, directory, lock or registry entry.
C8_ArgumentValidation ==
    /\ [](\A p \in Procs :
            /\ ~LacksArgument(call[p])
            /\ LacksArgument(ret[p].call) => ret[p].err = "InvalidArgument")
    /\ [][(calls' # calls /\ pc' = pc)
            => /\ \E p \in Procs : /\ ret'[p].err = "InvalidArgument"
                                   /\ LacksArgument(ret'[p].call)
               /\ UNCHANGED <<dirs, files, mutex, mutexes, locked>>]_vars

\* A Write without a resource and a Read or ReadAll without a collection have
\* returned InvalidArgument while a record is stored.
C8_Witness ==
    \E p, q \in Procs :
        /\ ret[p].call.op = "Write" /\ ret[p].call.resource = <<>>
        /\ ret[p].err = "InvalidArgument"
        /\ ret[q].call.op \in {"Read", "ReadAll"} /\ ret[q].call.collection = <<>>
        /\ ret[q].err = "InvalidArgument"
        /\ files # <<>>

\* The values of the records stored in a directory, in the order of their
\* file names: of every file that is at the final path of the Write that
\* made it.
Stored(ds, fs, dir) ==
    LET isRecord(e) ==
            LET f == Join(dir, <<e.name>>)
            IN  ~e.isDir /\ f = FnlPath(fs[f].by.collection, fs[f].by.resource)
        recs == SelectSeq(ReadDir(ds, fs, dir), isRecord)
    IN  [i \in 1..Len(recs) |-> fs[Join(dir, <<recs[i].name>>)].by.v]

\* C10: a ReadAll that no Write or Delete overlapped returns NotFound when
\* the collection directory does not exist, and otherwise the values last
\* written to the records stored in it, one element per record.
C10_ReadAllResult ==
    [][\A p \in Procs :
         LET dir == CollectionDir(call[p].collection)
         IN  (call[p].op = "ReadAll" /\ quiet[p] /\ pc'[p] = "idle")
                => IF dir \notin dirs
                   THEN ret'[p].err = "NotFound"
                   ELSE /\ ret'[p].err = "nil"
                        /\ ret'[p].users = Stored(dirs, files, dir)]_vars

\* C11: every file a ReadAll reads and deserializes is at the final path of
\* the Write that made it and holds the complete bytes of that Write; no
\* ReadAll reads a temporary file, written in part or in whole.
C11_ReadAllWholeFiles ==
    [][\A p \in Procs :
         LET path == Join(CollectionDir(call[p].collection),
                          <<Head(list[p]).name>>)
         IN  (/\ call[p].op = "ReadAll" /\ pc[p] = "entry"
              /\ (pc'[p] # pc[p] \/ list'[p] # list[p])
              /\ ~Head(list[p]).isDir
              /\ path \in DOMAIN files)
                 => /\ path = FnlPath(files[path].by.collection,
                                      files[path].by.resource)
                    /\ files[path].data = Encode(files[path].by.v)]_vars

\* C12: a call that waits at mutex.Lock() waits for a call in the locked
\* section of the same collection name, which holds that lock; a call in
\* the locked section of another collection holds neither that lock nor the
\* registry lock, so it delays no one.
C12_Independence ==
    \A q \in Procs :
        /\ InSection(q) => mutex # q
        /\ (pc[q] = "lock" /\ ~CanLock(locked, m[q]))
              => \E p \in Procs \ {q} :
                    /\ InSection(p)
                    /\ locked[m[q]] = p
                    /\ call[p].collection = call[q].collection

\* Two Writes to different collections both have their temporary file
\* open, each under its own lock.
C12_Witness ==
    \E p, q \in Procs :
        /\ pc[p] = "write" /\ pc[q] = "write"
        /\ call[p].collection # call[q].collection
        /\ locked[m[p]] = p /\ locked[m[q]] = q

\* C13: a Write(c, r, v) that succeeds right after the same Write(c, r, v)
\* succeeded, no other call having run since the first returned, leaves the
\* directories and the files, names and bytes, as the first left them.
C13_WriteIdempotent ==
    [][\A p \in Procs :
         (/\ call[p].op = "Write" /\ once.call = call[p]
          /\ pc[p] = "rename" /\ pc'[p] = "idle" /\ ret'[p].err = "nil")
            => dirs' = once.dirs /\ files' = once.files]_vars

\* The same Write has succeeded twice in succession, and its record is in
\* the collection directory.
C13_Witness ==
    /\ once.n >= 2
    /\ \A p \in Procs : pc[p] = "idle"
    /\ FnlPath(once.call.collection, once.call.resource) \in DOMAIN files

\* A file is a record file: it is at the final path of the Write that made
\* it, <resource>.json in the directory of that Write's collection.
IsRecordFile(f) ==
    /\ files[f].by.op = "Write"
    /\ f = FnlPath(files[f].by.collection, files[f].by.resource)

\* A file is the temporary file of a Write that is between opening it and
\* renaming it.
IsOpenTmpFile(f) ==
    /\ f = TmpPath(files[f].by.collection, files[f].by.resource)
    /\ \E p \in Procs : call[p] = files[f].by /\ pc[p] \in {"write", "rename"}

\* While no Write is in progress and no Write has failed, every file is a
\* record file.
LayoutAfterSuccess ==
    (~failed /\ \A p \in Procs : call[p].op # "Write")
        => \A f \in DOMAIN files : IsRecordFile(f)

\* A file that is not a record file is the temporary file of a Write in
\* progress.
TmpOnlyInProgress ==
    \A f \in DOMAIN files : ~IsRecordFile(f) => IsOpenTmpFile(f)

\* C14: while no Write is in progress and every Write so far succeeded, the
\* collection directories hold record files <resource>.json and nothing
\* else; and a temporary file exists only while the Write that made it is
\* between writing it and renaming it.
C14_Layout == LayoutAfterSuccess /\ TmpOnlyInProgress

\* C15: the step in which a Write or a Delete returns, with or without an
\* error, leaves the caller holding no collection lock and not the registry
\* lock; so while no call is in progress every lock is free.
C15_LockReleased ==
    /\ []((\A p \in Procs : pc[p] = "idle")
            => /\ mutex = NoProc
               /\ \A id \in DOMAIN locked : locked[id] = NoProc)
    /\ [][\A p \in Procs :
            (Mutating(p) /\ pc'[p] = "idle")
               => /\ mutex' # p
                  /\ \A id \in DOMAIN locked' : locked'[id] # p]_vars

\* A Write has returned the error of a rename and a Delete the error of a
\* removal, no call is in progress and the lock of their collection is free.
C15_Witness ==
    \E p, q \in Procs :
        /\ ret[p].call.op = "Write" /\ ret[p].err # "nil" /\ ret[p].at = "rename"
        /\ ret[q].call.op = "Delete" /\ ret[q].err # "nil" /\ ret[q].at = "remove"
        /\ ret[p].call.collection = ret[q].call.collection
        /\ \A r \in Procs : pc[r] = "idle"
        /\ locked[mutexes[ret[p].call.collection]] = NoProc

\* C16: the lock a call got from getOrCreateMutex is the one the registry
\* holds for its collection name, distinct names have distinct locks, and
\* no step removes or replaces an entry of the registry.
C16_RegistryUnique ==
    /\ [](/\ \A p \in Procs :
                m[p] # NoLock
                    => /\ call[p].collection \in DOMAIN mutexes
                       /\ m[p] = mutexes[call[p].collection]
          /\ \A c, d \in DOMAIN mutexes : c # d => mutexes[c] # mutexes[d])
    /\ [][\A c \in DOMAIN mutexes :
            c \in DOMAIN mutexes' /\ mutexes'[c] = mutexes[c]]_vars

\* Two calls that name the same collection hold the same lock instance, one
\* inside the locked section and one waiting for it, and a second
\* collection has its own entry.
C16_Witness ==
    \E p, q \in Procs :
        /\ p # q /\ m[p] # NoLock /\ m[p] = m[q]
        /\ InSection(p) /\ pc[q] = "lock"
        /\ \E c \in DOMAIN mutexes : mutexes[c] # m[p]

\* C17: the goroutine that holds the registry lock d.mutex is at the lookup
\* or at the insert of getOrCreateMutex: it holds no collection lock, it does
\* not wait for one, and its steps change no file and no directory.
C17_RegistryLockBrief ==
    /\ [](mutex # NoProc
            => /\ pc[mutex] \in {"lookup", "insert"}
               /\ \A id \in DOMAIN locked : locked[id] # mutex)
    /\ [][\A p \in Procs :
            (mutex = p /\ pc'[p] # pc[p]) => dirs' = dirs /\ files' = files]_vars

\* One goroutine holds the registry lock to insert an entry while another
\* has its temporary file open under a collection lock.
C17_Witness ==
    /\ mutex # NoProc
    /\ pc[mutex] = "insert"
    /\ \E q \in Procs : pc[q] = "write" /\ locked[m[q]] = q

ChangedBelow(d) ==
    {f \in (dirs \cup dirs') \cup (DOMAIN files \cup DOMAIN files') :
        /\ IsUnder(f, d)
        /\ \/ (f \in dirs) # (f \in dirs')
           \/ At(files, f) # At(files', f)
           \/ (f \in DOMAIN files) # (f \in DOMAIN files')}

\* C19: a step of a Write or a Delete that changes a path at or below the
\* directory of a collection with a non-empty name is the step of a call
\* that holds the lock registered for that name.
C19_LockCoversMutation ==
    [][\A c \in DOMAIN mutexes :
         (c # <<>> /\ ChangedBelow(CollectionDir(c)) # {})
            => \E p \in Procs :
                  /\ Mutating(p) /\ (pc'[p] # pc[p] \/ off'[p] # off[p])
                  /\ locked[mutexes[c]] = p]_vars

\* C20: every call that was made returns: a goroutine that is inside a
\* Write, a Read, a ReadAll or a Delete, waiting for the registry lock or for
\* a collection lock or at any step, is idle again later.
C20_Termination ==
    \A p \in Procs : (pc[p] # "idle") ~> (pc[p] = "idle")

\* A Delete waits for the lock of a collection that a Write holds, with its
\* temporary file written, while no further call can be made.
C20_Witness ==
    \E p, q \in Procs :
        /\ pc[q] = "lock" /\ call[q].op = "Delete" /\ locked[m[q]] = p
        /\ pc[p] = "rename" /\ call[p].op = "Write"
        /\ calls = MaxCalls

====
